---- MODULE Spec2Model ----
(***************************************************************************)
(* A model of ilo-toki (src/src/main.rs): the shared AppState, the live    *)
(* event handler with handle_new_message, and the key handlers of          *)
(* ui_events.  Every handler runs with the state mutex held from its first *)
(* to its last statement, so each handler is one action.                   *)
(***************************************************************************)
EXTENDS Integers, Sequences, FiniteSets, TLC

(***************************************************************************)
(* Bounds of the model.                                                    *)
(***************************************************************************)
\* number of distinct events the homeserver holds
MaxIds == 3
\* number of events in one page of history
MaxPage == 1
\* number of continuation tokens of a room's history
MaxTokens == 2
\* number of bytes the input text may reach
MaxLen == 6
\* number of events of the room whose history is scrolled
MaxLoaded == 2
MaxCharPos == 22
MaxWidth == 12

(***************************************************************************)
(* Option<T>: None is the empty sequence, Some(x) the sequence <<x>>.      *)
(***************************************************************************)
None == <<>>
Some(x) == <<x>>
IsSome(o) == o # <<>>
Unwrap(o) == o[1]

(***************************************************************************)
(* HashMap<K, V>: a function whose domain is the set of keys present.      *)
(***************************************************************************)
EmptyMap == [k \in {} |-> k]
MapInsert(m, k, v) == [x \in DOMAIN m \cup {k} |-> IF x = k THEN v ELSE m[x]]
MapRemove(m, k) == [x \in DOMAIN m \ {k} |-> m[x]]

\* Vec::insert(i, x), i counted from 0
VecInsert(s, i, x) == SubSeq(s, 1, i) \o <<x>> \o SubSeq(s, i + 1, Len(s))

(***************************************************************************)
(* The inputs: rooms, events and their fields.                             *)
(***************************************************************************)
Rooms == {"r1", "r2"}
\* origin_server_ts, in milliseconds
Timestamps == {1000, 2000}
\* MilliSecondsSinceUnixEpoch::as_secs
as_secs(ms) == ms \div 1000
\* the body of an event; distinct events carry distinct bodies
body(e) == e
\* the sender of an event
sender(e) == "@u:hs"

VARIABLES
    \* AppState
    channels, channel_ids, current_channel, channels_state, messages_state,
    input_text, input_char_pos, input_byte_pos, mode,
    \* the static RUNNING
    RUNNING,
    \* where main and the two spawned tasks stand
    main_pc, ui_pc, sync_pc,
    \* the homeserver: the membership of each room and the events it holds
    membership, server_events,
    \* the event ids in the order of their first application, and the last
    \* input the program handled
    arrival, last,
    \* the tasks that hold the MutexGuard of the state, the handler that is
    \* under way while it holds it, and where the loop of main_ui stands
    holder, work, render_pc,
    \* what main_ui drew last: the area of the input widget and the cursor
    frame

timeline == <<channels, messages_state>>
selection == <<channel_ids, current_channel, channels_state>>
input == <<input_text, input_char_pos, input_byte_pos>>
tasks == <<main_pc, ui_pc, sync_pc>>
server == <<membership, server_events>>
locking == <<holder, work, render_pc>>
vars == <<channels, channel_ids, current_channel, channels_state, messages_state,
          input_text, input_char_pos, input_byte_pos, mode, RUNNING,
          main_pc, ui_pc, sync_pc, membership, server_events,
          arrival, last, holder, work, render_pc, frame>>

(***************************************************************************)
(* struct Channel, as the live handler and the roster loop create it.      *)
(***************************************************************************)
Channel(room) ==
    [name |-> room, message_ids |-> <<>>, messages |-> EmptyMap,
     message_edits |-> EmptyMap, at_top |-> FALSE, messages_prev_batch |-> None]

\* struct Message, as handle_new_message creates it from an event
Message(e, ev) ==
    [id |-> e, user |-> sender(e), edited |-> FALSE, content |-> body(e),
     timestamp |-> as_secs(ev.origin_server_ts)]

\* struct Edit
Edit(e, ev) == [content |-> body(e), timestamp |-> ev.origin_server_ts]

\* the insertion loop with < in place of <=
RECURSIVE InsertIndexStrict(_, _, _, _)
InsertIndexStrict(ids, msgs, ts, i) ==
    IF i = 0 THEN 0
    ELSE IF ids[i] \in DOMAIN msgs /\ msgs[ids[i]].timestamp < ts THEN i
    ELSE InsertIndexStrict(ids, msgs, ts, i - 1)

(***************************************************************************)
(* The insertion loop of handle_new_message: i runs from len down to 0;    *)
(* the loop stops at i = 0, or at the first i whose predecessor            *)
(* message_ids[i - 1] is in the map with a timestamp <= the new one.       *)
(***************************************************************************)
RECURSIVE InsertIndex(_, _, _, _)
InsertIndex(ids, msgs, ts, i) ==
    IF i = 0 THEN 0
    ELSE IF ids[i] \in DOMAIN msgs /\ msgs[ids[i]].timestamp <= ts THEN i
    ELSE InsertIndex(ids, msgs, ts, i - 1)

\* the overwrite of the target without the edited flag
EditExistingNoFlag(ch, e, ev) ==
    [ch EXCEPT !.messages[ev.relates_to] = [@ EXCEPT !.content = body(e)]]

\* the Replacement branch, target in the map: the message is overwritten
EditExisting(ch, e, ev) ==
    [ch EXCEPT !.messages[ev.relates_to] =
        [@ EXCEPT !.edited = TRUE, !.content = body(e)]]

\* the Replacement branch, target not in the map: the edit is kept aside,
\* over an older one only
EditPending(ch, e, ev) ==
    IF ev.relates_to \in DOMAIN ch.message_edits
    THEN IF ch.message_edits[ev.relates_to].timestamp < ev.origin_server_ts
         THEN [ch EXCEPT !.message_edits =
                  MapInsert(@, ev.relates_to, Edit(e, ev))]
         ELSE ch
    ELSE [ch EXCEPT !.message_edits = MapInsert(@, ev.relates_to, Edit(e, ev))]

\* the new message without a look at the pending edits
NewMessagePlain(ch, e, ev) == Message(e, ev)

\* the message a new event becomes: a pending edit for its id is applied
NewMessage(ch, e, ev) ==
    IF e \in DOMAIN ch.message_edits
    THEN [Message(e, ev) EXCEPT !.edited = TRUE,
                                !.content = ch.message_edits[e].content]
    ELSE Message(e, ev)

\* the highlight after an insertion at index i > 0
ShiftSelected(sel, i) ==
    IF IsSome(sel) /\ Unwrap(sel) = i THEN Some(Unwrap(sel) - 1) ELSE sel

\* handle_new_message without its early return
AlreadyKnownNever(ch, e) == FALSE

\* the early return of handle_new_message
AlreadyKnown(ch, e) == e \in DOMAIN ch.messages

\* the id of the event pushed to the order sequence and nothing else
handle_new_message_ids_only(id, e, ev, lock) ==
    [lock EXCEPT !.channels[id].message_ids = Append(@, e)]

(***************************************************************************)
(* handle_new_message(id, message, lock): lock is the part of AppState the *)
(* function touches, [channels, messages_state]; the channel of room id    *)
(* exists (the caller's unwrap is modelled where it is called).            *)
(***************************************************************************)
handle_new_message(id, e, ev, lock) ==
    LET ch == lock.channels[id] IN
    IF AlreadyKnown(ch, e) THEN lock
    ELSE IF ev.relates_to # 0
    THEN IF ev.relates_to \in DOMAIN ch.messages
         THEN [lock EXCEPT !.channels[id] = EditExisting(ch, e, ev)]
         ELSE [lock EXCEPT !.channels[id] = EditPending(ch, e, ev)]
    ELSE LET message == NewMessage(ch, e, ev)
             i == InsertIndex(ch.message_ids, ch.messages, message.timestamp,
                              Len(ch.message_ids))
             ch2 == [ch EXCEPT !.message_edits = MapRemove(@, e),
                               !.message_ids = VecInsert(@, i, e),
                               !.messages = MapInsert(@, e, message)]
         IN [channels |-> [lock.channels EXCEPT ![id] = ch2],
             messages_state |-> IF i = 0 THEN lock.messages_state
                                ELSE ShiftSelected(lock.messages_state, i)]

(***************************************************************************)
(* The events the homeserver may hold.  Events are numbered in the order   *)
(* the server created them; relates_to = 0 is a plain message, and an edit *)
(* (m.replace) names an earlier event.                                     *)
(***************************************************************************)
EventsOf(n, rooms) ==
    { f \in [1 .. n -> [room : rooms, origin_server_ts : Timestamps,
                        relates_to : 0 .. n]] :
        \A e \in 1 .. n : f[e].relates_to < e }

\* what the program handled last: the input (op, room, id; for a page of
\* history id is the number of events it applied for the first time, for a
\* request to send or redact it is the text or the event id passed), a fact
\* of the state it met (pre) and the answer to the request it made to the
\* homeserver, "" when it made none (fetch)
Did(op, room, id, pre, fetch) ==
    [op |-> op, room |-> room, id |-> id, pre |-> pre, fetch |-> fetch]

\* whether event e has been applied before
Applied(e) == \E k \in 1 .. Len(arrival) : arrival[k] = e

\* the first application of an event is recorded once
Arrived(e) == IF Applied(e) THEN arrival ELSE Append(arrival, e)

(***************************************************************************)
(* The state main builds before the first sync (AppState { .. }).          *)
(***************************************************************************)
InitApp ==
    /\ channels = EmptyMap
    /\ channel_ids = <<>>
    /\ current_channel = None
    /\ channels_state = None
    /\ messages_state = None
    /\ input_text = <<>>
    /\ input_char_pos = 0
    /\ input_byte_pos = 0
    /\ mode = "Normal"
    /\ RUNNING = TRUE
    /\ main_pc = "sync_once"
    /\ ui_pc = "idle"
    /\ sync_pc = "syncing"
    /\ arrival = <<>>
    /\ last = Did("start", "", 0, FALSE, "")
    /\ holder = {}
    /\ work = None
    /\ render_pc = "load"
    /\ frame = None

\* one joined room, whose events all arrive live
InitTimeline ==
    /\ InitApp
    /\ membership = [r \in Rooms |-> IF r = "r1" THEN "joined" ELSE "absent"]
    /\ server_events \in EventsOf(MaxIds, {"r1"})

(***************************************************************************)
(* The event handler main registers, for SyncMessageLikeEvent::Original:   *)
(* the channel is created when the room is joined and has none, then       *)
(* handle_new_message unwraps the channel.                                 *)
(***************************************************************************)
LiveMessage(e) ==
    LET ev == server_events[e]
        room == ev.room
        chans == IF room \notin DOMAIN channels /\ membership[room] = "joined"
                 THEN MapInsert(channels, room, Channel(room)) ELSE channels
    IN
    /\ sync_pc = "syncing"
    /\ main_pc \in {"sync_once", "running"}
    /\ holder = {}
    /\ membership[room] # "absent"
    /\ last' = Did("message", room, e, Applied(e), "")
    /\ IF room \in DOMAIN chans
       THEN LET lock == handle_new_message(room, e, ev,
                            [channels |-> chans, messages_state |-> messages_state])
            IN /\ channels' = lock.channels
               /\ messages_state' = lock.messages_state
               /\ arrival' = Arrived(e)
               /\ UNCHANGED tasks
       ELSE \* channels.get_mut(id).unwrap() panics in the handler
            /\ sync_pc' = "panicked"
            /\ main_pc' = IF main_pc = "sync_once" THEN "panicked" ELSE main_pc
            /\ UNCHANGED <<channels, messages_state, arrival, ui_pc>>
    /\ UNCHANGED <<selection, input, mode, RUNNING, server, frame, locking>>

\* the same handler, for SyncMessageLikeEvent::Redacted: nothing is done
LiveRedacted(e) ==
    /\ sync_pc = "syncing"
    /\ main_pc \in {"sync_once", "running"}
    /\ holder = {}
    /\ membership[server_events[e].room] # "absent"
    /\ last' = Did("redacted", server_events[e].room, e, Applied(e), "")
    /\ UNCHANGED <<timeline, selection, input, mode, RUNNING, tasks, server, frame, locking, arrival>>

(***************************************************************************)
(* main after sync_once: every joined room gets a channel if it has none   *)
(* and is pushed to channel_ids; then the tasks are spawned.               *)
(***************************************************************************)
RECURSIVE Roster(_, _)
Roster(chans, rooms) ==
    IF rooms = <<>> THEN chans
    ELSE Roster(IF Head(rooms) \in DOMAIN chans THEN chans
                ELSE MapInsert(chans, Head(rooms), Channel(Head(rooms))),
                Tail(rooms))

\* client.joined_rooms(): the joined rooms, in any order
JoinedRooms ==
    LET J == {r \in Rooms : membership[r] = "joined"} IN
    { s \in [1 .. Cardinality(J) -> J] : \A a, b \in DOMAIN s : a # b => s[a] # s[b] }

LoadRoster ==
    /\ main_pc = "sync_once"
    /\ \E rooms \in JoinedRooms :
          /\ channels' = Roster(channels, rooms)
          /\ channel_ids' = channel_ids \o rooms
    /\ main_pc' = "running"
    /\ ui_pc' = "reading"
    /\ last' = Did("roster", "", 0, FALSE, "")
    /\ UNCHANGED <<current_channel, channels_state, messages_state, input, mode,
                   RUNNING, sync_pc, server, frame, locking, arrival>>

(***************************************************************************)
(* The input text.  A String is its UTF-8 bytes; a byte is <<c, k>>, the   *)
(* k-th byte (from 0) of the encoding of character c, so k = 0 marks the   *)
(* first byte of a character.                                              *)
(***************************************************************************)
Chars == {"a", "b", "eacute", "euro", "smile"}

\* the bytes of the encoding of c: one for ASCII, two for e-acute, three for
\* the euro sign, four for an emoji
Utf8(c) ==
    CASE c = "eacute" -> <<<<c, 0>>, <<c, 1>>>>
      [] c = "euro" -> <<<<c, 0>>, <<c, 1>>, <<c, 2>>>>
      [] c = "smile" -> <<<<c, 0>>, <<c, 1>>, <<c, 2>>, <<c, 3>>>>
      [] OTHER -> <<<<c, 0>>>>

\* a cursor that advances one byte for every character
len_utf8_One(c) == 1

\* char::len_utf8
len_utf8(c) == Len(Utf8(c))

\* a test that knows only the two ends of the text as boundaries
is_char_boundary_ends(text, i) == i = 0 \/ i = Len(text)

\* str::is_char_boundary: 0 and len are boundaries, an index beyond len is
\* none, an index inside is one when the byte there starts a character
is_char_boundary(text, i) ==
    \/ i = 0
    \/ i = Len(text)
    \/ i > 0 /\ i < Len(text) /\ text[i + 1][2] = 0

\* let mut i = 1; while !is_char_boundary(pos - i) { i += 1 }
RECURSIVE ScanBack(_, _, _)
ScanBack(text, pos, i) ==
    IF is_char_boundary(text, pos - i) THEN i ELSE ScanBack(text, pos, i + 1)

\* let mut i = 1; while !is_char_boundary(pos + i) { i += 1 }
RECURSIVE ScanForward(_, _, _)
ScanForward(text, pos, i) ==
    IF is_char_boundary(text, pos + i) THEN i ELSE ScanForward(text, pos, i + 1)

\* String::insert(pos, c)
StringInsert(text, pos, c) ==
    SubSeq(text, 1, pos) \o Utf8(c) \o SubSeq(text, pos + 1, Len(text))

\* String::remove(pos): the character that starts at pos is taken out
StringRemove(text, pos) ==
    SubSeq(text, 1, pos) \o SubSeq(text, pos + ScanForward(text, pos, 1) + 1, Len(text))

\* the text "/quit"
QuitText == Utf8("/") \o Utf8("q") \o Utf8("u") \o Utf8("i") \o Utf8("t")

\* a key is read while the task waits for one, and handled when the lock is
\* free: the handler takes the lock first and keeps it to its end
Reading == main_pc = "running" /\ ui_pc = "reading" /\ holder = {}

\* the channel of the current channel, if there is one
CurrentChannel ==
    IF IsSome(current_channel) /\ Unwrap(current_channel) \in DOMAIN channels
    THEN Some(channels[Unwrap(current_channel)]) ELSE None

(***************************************************************************)
(* Insert mode.                                                            *)
(***************************************************************************)
\* Left with the character count decremented outside the guard
MoveLeftAlways ==
    /\ input_byte_pos' = IF input_byte_pos > 0
                         THEN input_byte_pos - ScanBack(input_text, input_byte_pos, 1)
                         ELSE input_byte_pos
    /\ input_char_pos' = input_char_pos - 1

\* the cursor after Left (also h in Normal mode)
MoveLeft ==
    IF input_byte_pos > 0
    THEN /\ input_byte_pos' = input_byte_pos - ScanBack(input_text, input_byte_pos, 1)
         /\ input_char_pos' = input_char_pos - 1
    ELSE UNCHANGED <<input_byte_pos, input_char_pos>>

\* the cursor after Right (also l in Normal mode)
MoveRight ==
    IF input_byte_pos < Len(input_text)
    THEN /\ input_byte_pos' = input_byte_pos + ScanForward(input_text, input_byte_pos, 1)
         /\ input_char_pos' = input_char_pos + 1
    ELSE UNCHANGED <<input_byte_pos, input_char_pos>>

\* the text is compared with a match of "/quit" anywhere in it
IsQuitContains(text) ==
    \E k \in 0 .. Len(text) - Len(QuitText) :
        SubSeq(text, k + 1, k + Len(QuitText)) = QuitText

\* state.input_text == "/quit"
IsQuit(text) == text = QuitText

\* Enter that clears the text and the byte position and leaves the
\* character position
EnterKeyKeepsCursor ==
    IF IsQuit(input_text)
    THEN /\ last' = Did("Enter", "", 0, FALSE, "")
         /\ RUNNING' = FALSE
         /\ ui_pc' = "break"
         /\ holder' = {"ui"}
         /\ UNCHANGED input
    ELSE IF input_text # <<>>
    THEN /\ last' = IF IsSome(CurrentChannel)
                    THEN Did("Enter", Unwrap(current_channel), input_text, FALSE, "sent")
                    ELSE Did("Enter", "", 0, FALSE, "")
         /\ input_text' = <<>>
         /\ input_byte_pos' = 0
         /\ UNCHANGED <<input_char_pos, RUNNING, ui_pc, holder>>
    ELSE /\ last' = Did("Enter", "", 0, TRUE, "")
         /\ UNCHANGED <<RUNNING, ui_pc, input, holder>>

\* Enter in Insert and Normal mode: /quit clears RUNNING and breaks out of
\* the loop, the guard still alive; any other non-empty text is sent to the
\* current channel, if there is one, and the input is cleared;
\* send(..).await.unwrap() panics when the send fails.
EnterKey ==
    IF IsQuit(input_text)
    THEN /\ last' = Did("Enter", "", 0, FALSE, "")
         /\ RUNNING' = FALSE
         /\ ui_pc' = "break"
         /\ holder' = {"ui"}
         /\ UNCHANGED input
    ELSE IF input_text # <<>>
    THEN \/ /\ last' = IF IsSome(CurrentChannel)
                       THEN Did("Enter", Unwrap(current_channel), input_text, FALSE, "sent")
                       ELSE Did("Enter", "", 0, FALSE, "")
            /\ input_text' = <<>>
            /\ input_char_pos' = 0
            /\ input_byte_pos' = 0
            /\ UNCHANGED <<RUNNING, ui_pc, holder>>
         \/ /\ IsSome(CurrentChannel)
            /\ last' = Did("Enter", Unwrap(current_channel), input_text, FALSE, "failed")
            /\ ui_pc' = "panicked"
            /\ UNCHANGED <<RUNNING, input, holder>>
    ELSE /\ last' = Did("Enter", "", 0, TRUE, "")
         /\ UNCHANGED <<RUNNING, ui_pc, input, holder>>

\* a break that leaves the guard alive
UiBreakKeepsGuard ==
    /\ ui_pc = "break"
    /\ ui_pc' = "done"
    /\ UNCHANGED <<timeline, selection, input, mode, RUNNING, main_pc, sync_pc,
                   server, frame, arrival, last, holder, work, render_pc>>

\* break: the loop of ui_events is left, the guard is dropped and the task
\* ends
UiBreak ==
    /\ ui_pc = "break"
    /\ ui_pc' = "done"
    /\ holder' = holder \ {"ui"}
    /\ UNCHANGED <<timeline, selection, input, mode, RUNNING, main_pc, sync_pc,
                   server, frame, arrival, last, work, render_pc>>

InsertBackspace ==
    /\ Reading /\ mode = "Insert"
    /\ last' = Did("Backspace", "", 0, input_byte_pos = 0, "")
    /\ IF input_byte_pos > 0
       THEN LET i == ScanBack(input_text, input_byte_pos, 1) IN
            /\ input_byte_pos' = input_byte_pos - i
            /\ input_char_pos' = input_char_pos - 1
            /\ input_text' = StringRemove(input_text, input_byte_pos - i)
       ELSE UNCHANGED input
    /\ UNCHANGED <<timeline, selection, mode, RUNNING, tasks, server, frame, locking, arrival>>

InsertEnter ==
    /\ Reading /\ mode = "Insert"
    /\ EnterKey
    /\ UNCHANGED <<timeline, selection, mode, main_pc, sync_pc, server, frame, work,
                   render_pc, arrival>>

InsertLeft ==
    /\ Reading /\ mode = "Insert"
    /\ last' = Did("Left", "", 0, input_byte_pos = 0, "")
    /\ MoveLeft
    /\ UNCHANGED <<timeline, selection, input_text, mode, RUNNING, tasks, server, frame, locking, arrival>>

InsertRight ==
    /\ Reading /\ mode = "Insert"
    /\ last' = Did("Right", "", 0, input_byte_pos = Len(input_text), "")
    /\ MoveRight
    /\ UNCHANGED <<timeline, selection, input_text, mode, RUNNING, tasks, server, frame, locking, arrival>>

InsertChar(c) ==
    /\ Reading /\ mode = "Insert"
    /\ Len(input_text) + len_utf8(c) <= MaxLen
    /\ last' = Did("Char", "", 0, input_byte_pos = 0, "")
    /\ input_text' = StringInsert(input_text, input_byte_pos, c)
    /\ input_byte_pos' = input_byte_pos + len_utf8(c)
    /\ input_char_pos' = input_char_pos + 1
    /\ UNCHANGED <<timeline, selection, mode, RUNNING, tasks, server, frame, locking, arrival>>

InsertEsc ==
    /\ Reading /\ mode = "Insert"
    /\ last' = Did("Esc", "", 0, FALSE, "")
    /\ mode' = "Normal"
    /\ UNCHANGED <<timeline, selection, input, RUNNING, tasks, server, frame, locking, arrival>>

(***************************************************************************)
(* Normal mode.                                                            *)
(***************************************************************************)
NormalEnter ==
    /\ Reading /\ mode = "Normal"
    /\ EnterKey
    /\ UNCHANGED <<timeline, selection, mode, main_pc, sync_pc, server, frame, work,
                   render_pc, arrival>>

NormalC ==
    /\ Reading /\ mode = "Normal"
    /\ last' = Did("C", "", 0, FALSE, "")
    /\ mode' = "SelectChannel"
    /\ UNCHANGED <<timeline, selection, input, RUNNING, tasks, server, frame, locking, arrival>>

\* S that enters ScrollMessages whether or not a channel is current
NormalSAlways ==
    /\ Reading /\ mode = "Normal"
    /\ last' = Did("S", "", 0, IsSome(current_channel), "")
    /\ messages_state' = Some(0)
    /\ mode' = "ScrollMessages"
    /\ UNCHANGED <<channels, selection, input, RUNNING, tasks, server, frame, locking, arrival>>

NormalS ==
    /\ Reading /\ mode = "Normal"
    /\ last' = Did("S", "", 0, IsSome(current_channel), "")
    /\ IF IsSome(CurrentChannel)
       THEN /\ messages_state' = Some(0)
            /\ mode' = "ScrollMessages"
       ELSE UNCHANGED <<messages_state, mode>>
    /\ UNCHANGED <<channels, selection, input, RUNNING, tasks, server, frame, locking, arrival>>

NormalI ==
    /\ Reading /\ mode = "Normal"
    /\ last' = Did("i", "", 0, FALSE, "")
    /\ mode' = "Insert"
    /\ UNCHANGED <<timeline, selection, input, RUNNING, tasks, server, frame, locking, arrival>>

NormalLeft ==
    /\ Reading /\ mode = "Normal"
    /\ last' = Did("Left", "", 0, input_byte_pos = 0, "")
    /\ MoveLeft
    /\ UNCHANGED <<timeline, selection, input_text, mode, RUNNING, tasks, server, frame, locking, arrival>>

NormalRight ==
    /\ Reading /\ mode = "Normal"
    /\ last' = Did("Right", "", 0, input_byte_pos = Len(input_text), "")
    /\ MoveRight
    /\ UNCHANGED <<timeline, selection, input_text, mode, RUNNING, tasks, server, frame, locking, arrival>>

(***************************************************************************)
(* usize arithmetic.  n - 1 with n = 0 overflows: a debug build panics, a  *)
(* release build wraps to usize::MAX.  UsizeMax stands for 2^64 - 1, which *)
(* is beyond the integers of the model checker; it is larger than every    *)
(* length and index the model reaches.                                     *)
(***************************************************************************)
UsizeMax == 2147483647
Overflows(n) == n = 0
Minus1(n) == IF n = 0 THEN UsizeMax ELSE n - 1

\* the task of ui_events dies; its MutexGuard is dropped and nothing else
\* of the step is done
UiPanics ==
    /\ ui_pc' = "panicked"
    /\ UNCHANGED <<timeline, selection, input, mode, RUNNING, main_pc, sync_pc,
                   server, frame, locking, arrival>>

\* a wrapped highlight is followed for MaxIds steps from either end of usize
WithinCap(sel) ==
    IsSome(sel) => (Unwrap(sel) <= MaxIds \/ Unwrap(sel) >= UsizeMax - MaxIds)

\* Vec::get
VecGet(s, i) == IF i >= 0 /\ i < Len(s) THEN Some(s[i + 1]) ELSE None

(***************************************************************************)
(* SelectChannel mode.                                                     *)
(***************************************************************************)
\* Enter that also clears the highlight
SelectEnterClears ==
    /\ Reading /\ mode = "SelectChannel"
    /\ last' = Did("Enter", "", 0, IsSome(channels_state), "")
    /\ current_channel' = IF IsSome(channels_state)
                          THEN VecGet(channel_ids, Unwrap(channels_state))
                          ELSE None
    /\ channels_state' = None
    /\ mode' = "Normal"
    /\ UNCHANGED <<timeline, channel_ids, input, RUNNING, tasks,
                   server, frame, locking, arrival>>

SelectEnter ==
    /\ Reading /\ mode = "SelectChannel"
    /\ last' = Did("Enter", "", 0, IsSome(channels_state), "")
    /\ current_channel' = IF IsSome(channels_state)
                          THEN VecGet(channel_ids, Unwrap(channels_state))
                          ELSE None
    /\ mode' = "Normal"
    /\ UNCHANGED <<timeline, channel_ids, channels_state, input, RUNNING, tasks,
                   server, frame, locking, arrival>>

SelectUp ==
    /\ Reading /\ mode = "SelectChannel"
    /\ last' = Did("Up", "", 0, IsSome(channels_state), "")
    /\ IF IsSome(channels_state) /\ Unwrap(channels_state) > 0
       THEN /\ channels_state' = Some(Unwrap(channels_state) - 1)
            /\ UNCHANGED <<timeline, channel_ids, current_channel, input, mode,
                           RUNNING, tasks, server, frame, locking, arrival>>
       ELSE \/ /\ channels_state' = Some(Minus1(Len(channel_ids)))
               /\ UNCHANGED <<timeline, channel_ids, current_channel, input, mode,
                              RUNNING, tasks, server, frame, locking, arrival>>
            \/ /\ Overflows(Len(channel_ids))
               /\ UiPanics
    /\ WithinCap(channels_state')

\* Down that goes to the first channel when none is highlighted
SelectDownFirst ==
    /\ Reading /\ mode = "SelectChannel"
    /\ last' = Did("Down", "", 0, IsSome(channels_state), "")
    /\ channels_state' =
          IF IsSome(channels_state)
          THEN IF Unwrap(channels_state) < Minus1(Len(channel_ids))
               THEN Some(Unwrap(channels_state) + 1)
               ELSE Some(0)
          ELSE Some(0)
    /\ WithinCap(channels_state')
    /\ UNCHANGED <<timeline, channel_ids, current_channel, input, mode,
                   RUNNING, tasks, server, frame, locking, arrival>>

SelectDown ==
    /\ Reading /\ mode = "SelectChannel"
    /\ last' = Did("Down", "", 0, IsSome(channels_state), "")
    /\ \/ /\ channels_state' =
               IF IsSome(channels_state)
               THEN IF Unwrap(channels_state) < Minus1(Len(channel_ids))
                    THEN Some(Unwrap(channels_state) + 1)
                    ELSE Some(0)
               ELSE Some(Minus1(Len(channel_ids)))
          /\ UNCHANGED <<timeline, channel_ids, current_channel, input, mode,
                         RUNNING, tasks, server, frame, locking, arrival>>
       \/ /\ Overflows(Len(channel_ids))
          /\ UiPanics
    /\ WithinCap(channels_state')

SelectEsc ==
    /\ Reading /\ mode = "SelectChannel"
    /\ last' = Did("Esc", "", 0, IsSome(channels_state), "")
    /\ channels_state' = None
    /\ current_channel' = None
    /\ mode' = "Normal"
    /\ UNCHANGED <<timeline, channel_ids, input, RUNNING, tasks, server, frame, locking, arrival>>

(***************************************************************************)
(* ScrollMessages mode.                                                    *)
(***************************************************************************)
\* the client's sync token is 0; the continuation tokens of the history API
\* are 1 .. MaxTokens, a larger token standing further back in history
Tokens == 1 .. MaxTokens
sync_token == Some(0)

\* the "end" of an answer to a request made from token from: none at the
\* head of history, or a token further back
NextTokens(from) == {None} \cup {Some(t) : t \in {u \in Tokens : u > Unwrap(from)}}

\* the pages the homeserver may return for a room: up to MaxPage items, each
\* an event of the room or 0, an item that is no original room message
RECURSIVE Pages(_, _)
Pages(room, n) ==
    IF n = 0 THEN {<<>>}
    ELSE LET items == {e \in DOMAIN server_events : server_events[e].room = room}
                        \cup {0}
         IN Pages(room, n - 1) \cup
            {Append(p, x) : p \in {q \in Pages(room, n - 1) : Len(q) = n - 1},
                            x \in items}

\* for event in v.chunk: an original room message goes through
\* handle_new_message, anything else is skipped
RECURSIVE ApplyPage(_, _, _)
ApplyPage(room, chunk, lock) ==
    IF chunk = <<>> THEN lock
    ELSE ApplyPage(room, Tail(chunk),
                   IF Head(chunk) = 0 THEN lock
                   ELSE handle_new_message(room, Head(chunk),
                                           server_events[Head(chunk)], lock))

\* the events of a page are recorded as applied, in the page's order
RECURSIVE ArrivedAll(_, _)
ArrivedAll(arr, chunk) ==
    IF chunk = <<>> THEN arr
    ELSE ArrivedAll(IF Head(chunk) = 0 \/ \E k \in 1 .. Len(arr) : arr[k] = Head(chunk)
                    THEN arr ELSE Append(arr, Head(chunk)),
                    Tail(chunk))

\* options.from is the sync token whatever the channel holds
FetchFromSync(ch) == sync_token

\* options.from = messages_prev_batch.or(sync_token)
FetchFrom(ch) == IF IsSome(ch.messages_prev_batch) THEN ch.messages_prev_batch
                 ELSE sync_token

\* at_top left false whatever the answer
AtTopAfterNever(end) == FALSE

\* current.at_top = v.end.is_none()
AtTopAfter(end) == end = None

\* the backward fetch with a failed request taken for the head of history
BackfillErrorEnds(room) ==
    /\ \/ /\ last' = Did("Up", room, 0, TRUE, "err")
          /\ channels' = [channels EXCEPT ![room].at_top = TRUE]
          /\ UNCHANGED <<messages_state, arrival>>
       \/ \E end \in NextTokens(FetchFrom(channels[room])) :
          \E chunk \in Pages(room, MaxPage) :
            LET chans == [channels EXCEPT ![room].at_top = AtTopAfter(end),
                                          ![room].messages_prev_batch = end]
                lock == ApplyPage(room, chunk,
                            [channels |-> chans, messages_state |-> messages_state])
            IN /\ last' = Did("Up", room, Len(ArrivedAll(arrival, chunk)) - Len(arrival),
                           TRUE, IF end = None THEN "end" ELSE "more")
               /\ channels' = lock.channels
               /\ messages_state' = lock.messages_state
               /\ arrival' = ArrivedAll(arrival, chunk)

\* the backward fetch of Up at the oldest message, and the application of
\* its answer: an error is dropped; an answer sets at_top and the token and
\* its events are applied
Backfill(room) ==
    /\ \/ /\ last' = Did("Up", room, 0, TRUE, "err")
          /\ UNCHANGED <<timeline, arrival>>
       \/ \E end \in NextTokens(FetchFrom(channels[room])) :
          \E chunk \in Pages(room, MaxPage) :
            LET chans == [channels EXCEPT ![room].at_top = AtTopAfter(end),
                                          ![room].messages_prev_batch = end]
                lock == ApplyPage(room, chunk,
                            [channels |-> chans, messages_state |-> messages_state])
            IN /\ last' = Did("Up", room, Len(ArrivedAll(arrival, chunk)) - Len(arrival),
                           TRUE, IF end = None THEN "end" ELSE "more")
               /\ channels' = lock.channels
               /\ messages_state' = lock.messages_state
               /\ arrival' = ArrivedAll(arrival, chunk)

ScrollUp ==
    /\ Reading /\ mode = "ScrollMessages"
    /\ UNCHANGED <<channel_ids, current_channel, input, mode, RUNNING, main_pc,
                   sync_pc, server, frame, locking>>
    /\ IF ~IsSome(CurrentChannel)
       THEN /\ last' = Did("Up", "", 0, FALSE, "")
            /\ UNCHANGED <<timeline, channels_state, ui_pc, arrival>>
       ELSE LET room == Unwrap(current_channel)
                channel == Unwrap(CurrentChannel)
                len == Cardinality(DOMAIN channel.messages)
                current == Unwrap(messages_state)
            IN IF ~IsSome(messages_state)
               THEN /\ last' = Did("Up", room, 0, FALSE, "")
                    /\ channels_state' = IF len # 0 THEN Some(0) ELSE channels_state
                    /\ UNCHANGED <<timeline, ui_pc, arrival>>
               ELSE \/ \* messages.len() - 1 overflows in a debug build
                       /\ Overflows(len)
                       /\ last' = Did("Up", room, 0, FALSE, "")
                       /\ ui_pc' = "panicked"
                       /\ UNCHANGED <<timeline, channels_state, arrival>>
                    \/ /\ current < Minus1(len)
                       \* the highlight of an empty channel is stopped at MaxIds
                       /\ current < MaxIds
                       /\ last' = Did("Up", room, 0, FALSE, "")
                       /\ messages_state' = Some(current + 1)
                       /\ UNCHANGED <<channels, channels_state, ui_pc, arrival>>
                    \/ /\ ~(current < Minus1(len))
                       /\ ~channel.at_top
                       /\ Backfill(room)
                       /\ UNCHANGED <<channels_state, ui_pc>>
                    \/ /\ ~(current < Minus1(len))
                       /\ channel.at_top
                       /\ last' = Did("Up", room, 0, TRUE, "")
                       /\ UNCHANGED <<timeline, channels_state, ui_pc, arrival>>

ScrollDown ==
    /\ Reading /\ mode = "ScrollMessages"
    /\ last' = Did("Down", "", 0, messages_state = Some(0), "")
    /\ IF IsSome(messages_state)
       THEN /\ messages_state' = IF Unwrap(messages_state) > 0
                                 THEN Some(Unwrap(messages_state) - 1)
                                 ELSE messages_state
            /\ UNCHANGED channels_state
       ELSE /\ channels_state' =
                 IF IsSome(CurrentChannel)
                    /\ DOMAIN Unwrap(CurrentChannel).messages # {}
                 THEN Some(0) ELSE channels_state
            /\ UNCHANGED messages_state
    /\ UNCHANGED <<channels, channel_ids, current_channel, input, mode, RUNNING,
                   tasks, server, frame, locking, arrival>>

\* Ctrl-d: the highlighted message is redacted on the homeserver; the local
\* state is not touched; redact(..).await.unwrap() panics when it fails
ScrollCtrlD ==
    /\ Reading /\ mode = "ScrollMessages"
    /\ IF /\ IsSome(CurrentChannel)
          /\ membership[Unwrap(current_channel)] = "joined"
          /\ IsSome(messages_state)
       THEN LET room == Unwrap(current_channel)
                ids == Unwrap(CurrentChannel).message_ids
                n == Len(ids) - Unwrap(messages_state)
            IN \/ \* len - index - 1 overflows in a debug build
                  /\ n <= 0
                  /\ last' = Did("Ctrl-d", room, 0, TRUE, "")
                  /\ UiPanics
               \/ \* and wraps in a release build: no message at the index
                  /\ n <= 0
                  /\ last' = Did("Ctrl-d", room, 0, TRUE, "")
                  /\ UNCHANGED <<timeline, selection, input, mode, RUNNING, tasks,
                                 server, frame, locking, arrival>>
               \/ \* the redaction is requested and fails
                  /\ n > 0
                  /\ last' = Did("Ctrl-d", room, Unwrap(VecGet(ids, n - 1)), TRUE, "failed")
                  /\ UiPanics
               \/ \* the redaction is requested and accepted
                  /\ n > 0
                  /\ last' = Did("Ctrl-d", room, Unwrap(VecGet(ids, n - 1)), TRUE, "redacted")
                  /\ UNCHANGED <<timeline, selection, input, mode, RUNNING, tasks,
                                 server, frame, locking, arrival>>
       ELSE /\ last' = Did("Ctrl-d", "", 0, IsSome(messages_state), "")
            /\ UNCHANGED <<timeline, selection, input, mode, RUNNING, tasks, server, frame, locking,
                           arrival>>

\* Esc that leaves the mode and keeps the message highlight
ScrollEscKeepsHighlight ==
    /\ Reading /\ mode = "ScrollMessages"
    /\ last' = Did("Esc", "", 0, IsSome(messages_state), "")
    /\ mode' = "Normal"
    /\ UNCHANGED <<channels, messages_state, selection, input, RUNNING, tasks,
                   server, frame, locking, arrival>>

ScrollEsc ==
    /\ Reading /\ mode = "ScrollMessages"
    /\ last' = Did("Esc", "", 0, IsSome(messages_state), "")
    /\ messages_state' = None
    /\ mode' = "Normal"
    /\ UNCHANGED <<channels, selection, input, RUNNING, tasks, server, frame, locking, arrival>>

(***************************************************************************)
(* The events no arm of the mode handles: `=> ()`.  Char is a character    *)
(* with no arm of its own, Tab stands for the other keys, Resize for the   *)
(* events that are no key.  h, l, k and j are Left, Right, Up and Down     *)
(* outside Insert mode; in Insert mode every character, also with Ctrl, is *)
(* inserted.                                                               *)
(***************************************************************************)
Keys == {"Backspace", "Enter", "Left", "Right", "Up", "Down", "Esc", "Char",
         "C", "S", "i", "Ctrl-d", "Tab", "Resize"}

Handled(m) ==
    CASE m = "Insert" -> {"Backspace", "Enter", "Left", "Right", "Esc", "Char",
                          "C", "S", "i", "Ctrl-d"}
      [] m = "Normal" -> {"Enter", "C", "S", "i", "Left", "Right"}
      [] m = "SelectChannel" -> {"Enter", "Up", "Down", "Esc"}
      [] m = "ScrollMessages" -> {"Up", "Down", "Ctrl-d", "Esc"}

Ignored(k) ==
    /\ Reading
    /\ k \notin Handled(mode)
    /\ last' = Did(k, "", 0, FALSE, "")
    /\ UNCHANGED <<timeline, selection, input, mode, RUNNING, tasks, server, frame, locking, arrival>>

(***************************************************************************)
(* The lock of the state, tokio::sync::Mutex<AppState>.  The handlers      *)
(* above are whole critical sections; below the handler of a live event    *)
(* and the backward fetch of Up are taken step by step, with the loop of   *)
(* main_ui, to follow what another task can see between two steps.         *)
(***************************************************************************)
\* a lock() that returns while a guard is alive
MutexLockNoWait(who) == holder' = holder \cup {who}

\* state.lock().await returns once no guard is alive
MutexLock(who) == holder = {} /\ holder' = {who}

\* the MutexGuard is dropped
MutexUnlock(who) == holder' = holder \ {who}

\* the channel between the two inserts of a new message: the id is in
\* message_ids, the message not yet in messages
HalfInserted(ch, e, ev) ==
    LET message == NewMessage(ch, e, ev)
        i == InsertIndex(ch.message_ids, ch.messages, message.timestamp,
                         Len(ch.message_ids))
    IN [ch EXCEPT !.message_edits = MapRemove(@, e),
                  !.message_ids = VecInsert(@, i, e)]

\* whether handle_new_message inserts event e as a new message
InsertsNew(ch, e) ==
    e # 0 /\ ~AlreadyKnown(ch, e) /\ server_events[e].relates_to = 0

\* the handler of a live event takes the lock; the channel of a joined room
\* exists once main has loaded the roster
LiveLock(e) ==
    LET room == server_events[e].room IN
    /\ sync_pc = "syncing"
    /\ main_pc = "running"
    /\ membership[room] = "joined"
    /\ room \in DOMAIN channels
    /\ work = None
    /\ MutexLock("sync")
    /\ work' = Some([who |-> "sync", room |-> room, chunk |-> <<e>>,
                     answered |-> TRUE, pre |-> None, from |-> None, end |-> None])
    /\ UNCHANGED <<timeline, selection, input, mode, RUNNING, tasks, server, frame,
                   arrival, last, render_pc>>

\* Up on the oldest message of a channel whose at_top is not set: the
\* handler takes the lock and requests a page of history; from is the
\* token of the request, end the token of its answer
UpLock ==
    /\ Reading /\ mode = "ScrollMessages"
    /\ IsSome(CurrentChannel)
    /\ IsSome(messages_state)
    /\ LET channel == Unwrap(CurrentChannel)
           len == Cardinality(DOMAIN channel.messages)
       IN /\ len >= 1
          /\ ~(Unwrap(messages_state) < len - 1)
          /\ ~channel.at_top
    /\ work = None
    /\ MutexLock("ui")
    /\ work' = Some([who |-> "ui", room |-> Unwrap(current_channel), chunk |-> <<>>,
                     answered |-> FALSE, pre |-> None,
                     from |-> FetchFrom(Unwrap(CurrentChannel)), end |-> None])
    /\ UNCHANGED <<timeline, selection, input, mode, RUNNING, tasks, server, frame,
                   arrival, last, render_pc>>

\* the answer arrives while the lock is held: an error is dropped; an
\* answer sets at_top and the token, and its events are to be applied
UpAnswer ==
    /\ IsSome(work)
    /\ ~Unwrap(work).answered
    /\ LET w == Unwrap(work)
           room == w.room
       IN \/ /\ last' = Did("Up", room, 0, TRUE, "err")
             /\ work' = Some([w EXCEPT !.answered = TRUE])
             /\ UNCHANGED channels
          \/ \E end \in NextTokens(w.from) :
             \E chunk \in Pages(room, MaxLoaded) :
                /\ last' = Did("Up", room, 0, TRUE, IF end = None THEN "end" ELSE "more")
                /\ channels' = [channels EXCEPT ![room].at_top = AtTopAfter(end),
                                                ![room].messages_prev_batch = end]
                /\ work' = Some([w EXCEPT !.answered = TRUE, !.chunk = chunk,
                                          !.end = end])
    /\ UNCHANGED <<messages_state, selection, input, mode, RUNNING, tasks, server, frame,
                   arrival, holder, render_pc>>

\* handle_new_message up to channel.message_ids.insert(i, id)
ApplyHalf ==
    /\ IsSome(work)
    /\ LET w == Unwrap(work) IN
       /\ w.answered /\ w.chunk # <<>> /\ w.pre = None
       /\ InsertsNew(channels[w.room], Head(w.chunk))
       /\ channels' = [channels EXCEPT ![w.room] =
                          HalfInserted(@, Head(w.chunk), server_events[Head(w.chunk)])]
       /\ work' = Some([w EXCEPT !.pre = Some([channels |-> channels,
                                                messages_state |-> messages_state])])
    /\ UNCHANGED <<messages_state, selection, input, mode, RUNNING, tasks, server, frame,
                   arrival, last, holder, render_pc>>

\* handle_new_message to its end, for the next event of the handler; an
\* item of a page that is no original room message is skipped
ApplyFull ==
    /\ IsSome(work)
    /\ LET w == Unwrap(work)
           e == Head(w.chunk)
           lock0 == IF IsSome(w.pre) THEN Unwrap(w.pre)
                    ELSE [channels |-> channels, messages_state |-> messages_state]
           lock1 == IF e = 0 THEN lock0
                    ELSE handle_new_message(w.room, e, server_events[e], lock0)
       IN /\ w.answered /\ w.chunk # <<>>
          /\ InsertsNew(lock0.channels[w.room], e) => IsSome(w.pre)
          /\ channels' = lock1.channels
          /\ messages_state' = lock1.messages_state
          /\ arrival' = IF e = 0 THEN arrival ELSE Arrived(e)
          /\ last' = Did(IF w.who = "sync" THEN "message" ELSE "page", w.room, e,
                         e # 0 /\ Applied(e), "")
          /\ work' = Some([w EXCEPT !.chunk = Tail(@), !.pre = None])
    /\ UNCHANGED <<selection, input, mode, RUNNING, tasks, server, frame, holder, render_pc>>

\* the handler ends and its guard is dropped
Unlock ==
    /\ IsSome(work)
    /\ Unwrap(work).answered
    /\ Unwrap(work).chunk = <<>>
    /\ MutexUnlock(Unwrap(work).who)
    /\ work' = None
    /\ UNCHANGED <<timeline, selection, input, mode, RUNNING, tasks, server, frame,
                   arrival, last, render_pc>>

(***************************************************************************)
(* main_ui: while RUNNING.load() { let state = state.lock().await; draw;   *)
(* sleep(10 ms) }.  The guard lives to the end of the loop body, over the  *)
(* sleep.                                                                  *)
(***************************************************************************)
RenderLoad ==
    /\ main_pc = "running"
    /\ render_pc = "load"
    /\ render_pc' = IF RUNNING THEN "lock" ELSE "exited"
    /\ UNCHANGED <<timeline, selection, input, mode, RUNNING, tasks, server, frame,
                   arrival, last, holder, work>>

RenderLock ==
    /\ render_pc = "lock"
    /\ MutexLock("draw")
    /\ render_pc' = "draw"
    /\ UNCHANGED <<timeline, selection, input, mode, RUNNING, tasks, server, frame,
                   arrival, last, work>>

\* the frame is drawn from the state, the task sleeps, the guard is dropped
RenderDraw ==
    /\ render_pc = "draw"
    /\ MutexUnlock("draw")
    /\ render_pc' = "load"
    /\ UNCHANGED <<timeline, selection, input, mode, RUNNING, tasks, server, frame,
                   arrival, last, work>>

(***************************************************************************)
(* The cursor main_ui sets in Insert and Normal mode.  area is content[1], *)
(* the rectangle of the input widget with its border; the text wraps at    *)
(* width - 2 columns.                                                      *)
(***************************************************************************)
\* `as u16`
u16(n) == n % 65536

\* the cursor at column m of row char_pos / w whatever m is
set_cursor_plain(char_pos, area) ==
    LET w == area.width - 2
        m == u16(char_pos) % w
    IN <<area.x + m + 1, area.y + u16(char_pos) \div w + 1>>

\* the two f.set_cursor calls of the Insert arm (the Normal arm is the same)
set_cursor(char_pos, area) ==
    LET w == area.width - 2
        m == u16(char_pos) % w
    IN IF m = 0 /\ char_pos # 0
       THEN <<area.x + area.width - 1, area.y + (u16(char_pos) - 1) \div w + 1>>
       ELSE <<area.x + m + 1, area.y + u16(char_pos) \div w + 1>>

\* the rectangles of the input widget: two origins, every width that leaves
\* at least one column inside the border
Areas == [x : {0, 20}, y : {0, 7}, width : 3 .. MaxWidth]

\* terminal.draw, the part that places the cursor: the other two modes set
\* none
SetCursor(area) ==
    /\ render_pc = "draw"
    /\ frame' = Some([area |-> area,
                      cursor |-> IF mode \in {"Insert", "Normal"}
                                 THEN Some(set_cursor(input_char_pos, area))
                                 ELSE None])
    /\ UNCHANGED <<timeline, selection, input, mode, RUNNING, tasks, server,
                   arrival, last, holder, work, render_pc>>

NextTimeline ==
    \/ \E e \in DOMAIN server_events : LiveMessage(e)
    \/ \E e \in DOMAIN server_events : LiveRedacted(e)
    \/ LoadRoster

SpecTimeline == InitTimeline /\ [][NextTimeline]_vars

\* one joined room and no events: the keys of the input text and of the
\* channel list
InitInput ==
    /\ InitApp
    /\ membership = [r \in Rooms |-> IF r = "r1" THEN "joined" ELSE "absent"]
    /\ server_events \in EventsOf(0, {"r1"})

NextInput ==
    \/ LoadRoster
    \/ InsertBackspace
    \/ InsertEnter
    \/ InsertLeft
    \/ InsertRight
    \/ \E c \in Chars : InsertChar(c)
    \/ InsertEsc
    \/ NormalEnter
    \/ NormalC
    \/ NormalI
    \/ NormalLeft
    \/ NormalRight
    \/ SelectEnter
    \/ SelectUp
    \/ SelectDown
    \/ SelectEsc

SpecInput == InitInput /\ [][NextInput]_vars

\* one joined room with MaxLoaded events, which arrive live and in pages
\* of history while the user scrolls
InitScroll ==
    /\ InitApp
    /\ membership = [r \in Rooms |-> IF r = "r1" THEN "joined" ELSE "absent"]
    /\ server_events \in EventsOf(MaxLoaded, {"r1"})

NextScroll ==
    \/ LoadRoster
    \/ \E e \in DOMAIN server_events : LiveMessage(e)
    \/ NormalC
    \/ NormalS
    \/ SelectEnter
    \/ SelectUp
    \/ SelectDown
    \/ SelectEsc
    \/ ScrollUp
    \/ ScrollDown
    \/ ScrollCtrlD
    \/ ScrollEsc

SpecScroll == InitScroll /\ [][NextScroll]_vars

\* one joined room and no events: the user types the characters of /quit,
\* deletes, sends, and goes through the modes
QuitChars == {"/", "q", "u", "i", "t"}

NextQuit ==
    \/ LoadRoster
    \/ \E c \in QuitChars : InsertChar(c)
    \/ InsertBackspace
    \/ InsertEnter
    \/ InsertEsc
    \/ NormalEnter
    \/ NormalI
    \/ NormalC
    \/ NormalS
    \/ SelectEnter
    \/ SelectDown
    \/ ScrollEsc
    \/ Ignored("Enter")
    \/ UiBreak

SpecQuit == InitInput /\ [][NextQuit]_vars

\* one joined room and no events: every key and event in every mode; the
\* characters typed in Insert mode are those that are commands elsewhere
ModeChars == {"i", "S"}

NextMode ==
    \/ LoadRoster
    \/ InsertBackspace
    \/ InsertEnter
    \/ InsertLeft
    \/ InsertRight
    \/ \E c \in ModeChars : InsertChar(c)
    \/ InsertEsc
    \/ NormalEnter
    \/ NormalC
    \/ NormalS
    \/ NormalI
    \/ NormalLeft
    \/ NormalRight
    \/ SelectEnter
    \/ SelectUp
    \/ SelectDown
    \/ SelectEsc
    \/ ScrollUp
    \/ ScrollDown
    \/ ScrollCtrlD
    \/ ScrollEsc
    \/ \E k \in Keys : Ignored(k)

SpecMode == InitInput /\ [][NextMode]_vars

\* any of the rooms joined, none included, and no events: the keys that
\* move the channel highlight and choose the current channel
InitRooms ==
    /\ InitApp
    /\ membership \in [Rooms -> {"joined", "absent"}]
    /\ server_events \in EventsOf(0, Rooms)

NextSelect ==
    \/ LoadRoster
    \/ NormalC
    \/ NormalS
    \/ SelectEnter
    \/ SelectUp
    \/ SelectDown
    \/ SelectEsc
    \/ ScrollUp
    \/ ScrollDown
    \/ ScrollEsc

SpecSelect == InitRooms /\ [][NextSelect]_vars

\* one joined room with MaxLoaded events: live events, the backward fetch
\* and the loop of main_ui, step by step
NextLock ==
    \/ LoadRoster
    \/ NormalC
    \/ SelectDown
    \/ SelectEnter
    \/ NormalS
    \/ \E e \in DOMAIN server_events : LiveLock(e)
    \/ UpLock
    \/ UpAnswer
    \/ ApplyHalf
    \/ ApplyFull
    \/ Unlock
    \/ RenderLoad
    \/ RenderLock
    \/ RenderDraw

SpecLock == InitScroll /\ [][NextLock]_vars

\* a text of n characters of one byte
TypedText(n) == [k \in 1 .. n |-> <<"a", 0>>]

\* one joined room, both tasks under way, and a text of up to MaxCharPos
\* characters typed with the cursor at its end: main_ui draws while the
\* user goes through the modes
InitCursor ==
    /\ channels = MapInsert(EmptyMap, "r1", Channel("r1"))
    /\ channel_ids = <<"r1">>
    /\ current_channel = Some("r1")
    /\ channels_state = Some(0)
    /\ messages_state = None
    /\ \E n \in 0 .. MaxCharPos :
          /\ input_text = TypedText(n)
          /\ input_char_pos = n
          /\ input_byte_pos = n
    /\ mode = "Normal"
    /\ RUNNING = TRUE
    /\ main_pc = "running"
    /\ ui_pc = "reading"
    /\ sync_pc = "syncing"
    /\ arrival = <<>>
    /\ last = Did("Esc", "", 0, FALSE, "")
    /\ holder = {}
    /\ work = None
    /\ render_pc = "load"
    /\ frame = None
    /\ membership = [r \in Rooms |-> IF r = "r1" THEN "joined" ELSE "absent"]
    /\ server_events \in EventsOf(0, {"r1"})

NextCursor ==
    \/ NormalI
    \/ InsertEsc
    \/ NormalC
    \/ SelectEnter
    \/ NormalS
    \/ ScrollEsc
    \/ RenderLoad
    \/ RenderLock
    \/ \E area \in Areas : SetCursor(area)
    \/ RenderDraw

SpecCursor == InitCursor /\ [][NextCursor]_vars

TypeQuit ==
    \E c \in QuitChars :
        /\ Len(input_text) < Len(QuitText)
        /\ input_text \o Utf8(c) = SubSeq(QuitText, 1, Len(input_text) + 1)
        /\ InsertChar(c)

\* one joined room with MaxPage events, which arrive live again and again:
\* the user types /quit and presses Enter while main_ui draws
InitShutdown ==
    /\ InitApp
    /\ membership = [r \in Rooms |-> IF r = "r1" THEN "joined" ELSE "absent"]
    /\ server_events \in EventsOf(MaxPage, {"r1"})

NextShutdown ==
    \/ LoadRoster
    \/ NormalI
    \/ TypeQuit
    \/ InsertEsc
    \/ InsertEnter
    \/ NormalEnter
    \/ UiBreak
    \/ \E e \in DOMAIN server_events : LiveLock(e)
    \/ ApplyHalf
    \/ ApplyFull
    \/ Unlock
    \/ RenderLoad
    \/ RenderLock
    \/ RenderDraw

\* the runtime polls a task that can go on; the Mutex of tokio grants the
\* lock in the order of the requests, so a task that asks for it gets it
\* although other tasks take it again and again
SpecShutdown ==
    /\ InitShutdown
    /\ [][NextShutdown]_vars
    /\ WF_vars(UiBreak)
    /\ WF_vars(ApplyHalf)
    /\ WF_vars(ApplyFull)
    /\ WF_vars(Unlock)
    /\ WF_vars(RenderLoad)
    /\ SF_vars(RenderLock)
    /\ WF_vars(RenderDraw)

\* two rooms, each joined, left or unknown to the account, with events in
\* any of them: the sync delivers the timeline of joined and of left rooms
\* to the handler, as Room::Joined and Room::Left
InitLive ==
    /\ InitApp
    /\ membership \in [Rooms -> {"joined", "left", "absent"}]
    /\ server_events \in EventsOf(MaxIds, Rooms)

NextLive ==
    \/ \E e \in DOMAIN server_events : LiveMessage(e)
    \/ \E e \in DOMAIN server_events : LiveRedacted(e)
    \/ LoadRoster

SpecLive == InitLive /\ [][NextLive]_vars

\* two joined rooms with two events each, all of the same millisecond, an
\* event a message or an edit of an earlier event of its room: live events
\* arrive while the user chooses a channel and moves the message highlight
InitFrame ==
    /\ InitApp
    /\ membership = [r \in Rooms |-> "joined"]
    /\ server_events \in
          { f \in EventsOf(4, Rooms) :
              \A e \in 1 .. 4 :
                 /\ f[e].room = IF e <= 2 THEN "r1" ELSE "r2"
                 /\ f[e].origin_server_ts = 1000
                 /\ f[e].relates_to # 0 => f[f[e].relates_to].room = f[e].room }

NextFrame ==
    \/ LoadRoster
    \/ \E e \in DOMAIN server_events : LiveMessage(e)
    \/ NormalC
    \/ SelectDown
    \/ SelectEnter
    \/ NormalS
    \/ ScrollUp
    \/ ScrollDown
    \/ ScrollEsc

SpecFrame == InitFrame /\ [][NextFrame]_vars

(***************************************************************************)
(* Properties of the timeline.                                             *)
(***************************************************************************)
\* the position of e in the sequence s
Pos(s, e) == CHOOSE k \in 1 .. Len(s) : s[k] = e
\* the events that are plain messages, and the edits of a message
IsMessage(e) == server_events[e].relates_to = 0
EditsOf(t) == {e \in DOMAIN server_events : server_events[e].relates_to = t}

\* C1: in every channel message_ids is sorted non-decreasing by the
\* messages' timestamps, and two messages with equal timestamps stand in the
\* order in which they were first applied.
C1_SortedStable ==
    \A r \in DOMAIN channels :
        LET ids == channels[r].message_ids
            msgs == channels[r].messages
        IN \A i, j \in 1 .. Len(ids) :
              i < j =>
                /\ msgs[ids[i]].timestamp <= msgs[ids[j]].timestamp
                /\ msgs[ids[i]].timestamp = msgs[ids[j]].timestamp
                      => Pos(arrival, ids[i]) < Pos(arrival, ids[j])

\* C1 witness: a page of history brought a message that was inserted in
\* front of a message applied before it.
C1_Witness ==
    /\ last.op = "Up" /\ last.id >= 1
    /\ \E r \in DOMAIN channels :
          LET ids == channels[r].message_ids
          IN /\ Len(ids) >= 2
             /\ Pos(arrival, ids[1]) = Len(arrival)

\* C2: a new-message event whose id is already in the channel's message map
\* changes neither the channels (order, messages, pending edits) nor the
\* message highlight.
C2_DuplicateNoOp ==
    [][(/\ last'.op = "message"
        /\ last'.room \in DOMAIN channels
        /\ last'.id \in DOMAIN channels[last'.room].messages)
       => UNCHANGED <<channels, messages_state>>]_vars

\* C2 witness: the last event applied was a message applied before, it is
\* in the map of its channel, and a message of that channel is highlighted.
C2_Witness ==
    /\ last.op = "message"
    /\ last.pre
    /\ last.room \in DOMAIN channels
    /\ last.id \in DOMAIN channels[last.room].messages
    /\ Len(channels[last.room].message_ids) >= 2
    /\ current_channel = Some(last.room)
    /\ messages_state = Some(1)

\* C3 (as claimed): once a message and two edits of it with different
\* timestamps have all been applied, the message holds the body of the edit
\* with the larger timestamp.
C3_LaterEditWins ==
    \A t \in DOMAIN server_events : \A a, b \in EditsOf(t) :
        (/\ IsMessage(t)
         /\ server_events[a].origin_server_ts < server_events[b].origin_server_ts
         /\ Applied(t) /\ Applied(a) /\ Applied(b)
         /\ server_events[t].room \in DOMAIN channels)
        => channels[server_events[t].room].messages[t].content = body(b)

\* C4: no id is both in the message map and in the pending edits of a
\* channel; a message created while an edit is pending for its id carries
\* that edit's body, is marked edited, and the pending edit is gone.
C4_PendingConsumed ==
    /\ [](\A r \in DOMAIN channels :
            DOMAIN channels[r].messages \cap DOMAIN channels[r].message_edits = {})
    /\ [][\A r \in DOMAIN channels : \A e \in DOMAIN channels'[r].messages :
            e \notin DOMAIN channels[r].messages =>
              /\ e \notin DOMAIN channels'[r].message_edits
              /\ e \in DOMAIN channels[r].message_edits =>
                    /\ channels'[r].messages[e].edited
                    /\ channels'[r].messages[e].content =
                          channels[r].message_edits[e].content]_vars

\* C4 witness: the last event created a message that took a pending edit.
C4_Witness ==
    /\ last.op = "message" /\ ~last.pre /\ IsMessage(last.id)
    /\ last.room \in DOMAIN channels
    /\ last.id \in DOMAIN channels[last.room].messages
    /\ channels[last.room].messages[last.id].edited
    /\ channels[last.room].messages[last.id].content # body(last.id)

\* C5: an edit whose target is in the message map sets the target's body
\* and edited flag and changes nothing else: not the order, not the target's
\* timestamp, no other message, no pending edit.
C5_EditExistingFrame ==
    [][\A r \in DOMAIN channels :
        LET e == last'.id
            t == server_events[e].relates_to
            ch == channels[r]
            ch2 == channels'[r]
        IN (/\ last'.op = "message" /\ last'.room = r
            /\ t # 0 /\ t \in DOMAIN ch.messages)
           => /\ ch2.messages[t].content = body(e)
              /\ ch2.messages[t].edited
              /\ ch2.messages[t].timestamp = ch.messages[t].timestamp
              /\ ch2.messages[t].id = ch.messages[t].id
              /\ ch2.messages[t].user = ch.messages[t].user
              /\ ch2.message_ids = ch.message_ids
              /\ DOMAIN ch2.messages = DOMAIN ch.messages
              /\ \A m \in DOMAIN ch.messages \ {t} : ch2.messages[m] = ch.messages[m]
              /\ ch2.message_edits = ch.message_edits]_vars

\* C5 witness: the last event was an edit, and its target, listed among
\* other messages, holds the edit's body.
C5_Witness ==
    /\ last.op = "message" /\ ~IsMessage(last.id)
    /\ last.room \in DOMAIN channels
    /\ LET t == server_events[last.id].relates_to
           ch == channels[last.room]
       IN /\ t \in DOMAIN ch.messages
          /\ ch.messages[t].content = body(last.id)
          /\ ch.messages[t].edited
          /\ Len(ch.message_ids) >= 2

\* C6 (as claimed): after a redaction of an event has been applied, the
\* event is neither in the order sequence nor in the message map.
C6_RedactionRemoves ==
    (last.op = "redacted" /\ last.room \in DOMAIN channels)
    => /\ last.id \notin DOMAIN channels[last.room].messages
       /\ \A k \in 1 .. Len(channels[last.room].message_ids) :
             channels[last.room].message_ids[k] # last.id

(***************************************************************************)
(* Properties of the input text.                                           *)
(***************************************************************************)
\* the number of characters that start among the first n bytes of text
CharsBefore(text, n) == Cardinality({k \in 1 .. n : text[k][2] = 0})

\* C7: input_byte_pos is between 0 and the byte length of input_text and on
\* a character boundary, and input_char_pos is the number of characters
\* before it.
C7_CursorInSync ==
    /\ input_byte_pos >= 0
    /\ input_byte_pos <= Len(input_text)
    /\ input_byte_pos < Len(input_text) => input_text[input_byte_pos + 1][2] = 0
    /\ input_char_pos = CharsBefore(input_text, input_byte_pos)

\* C7 witness: after a Backspace that deleted a character the cursor stands
\* between two characters of several bytes.
C7_Witness ==
    /\ last.op = "Backspace" /\ ~last.pre
    /\ input_byte_pos > 0 /\ input_byte_pos < Len(input_text)
    /\ input_char_pos < input_byte_pos
    /\ input_text[input_byte_pos][2] > 0
    /\ Len(input_text) - input_byte_pos > 1

\* C8: Backspace and Left with the cursor at byte 0, and Right with the
\* cursor at the end of the text, change nothing of the input; Left and
\* Right never change the text.
C8_EdgeNoOps ==
    [][/\ (mode = "Insert" /\ last'.op = "Backspace" /\ input_byte_pos = 0)
          => UNCHANGED input
       /\ (mode \in {"Insert", "Normal"} /\ last'.op = "Left" /\ input_byte_pos = 0)
          => UNCHANGED input
       /\ (mode \in {"Insert", "Normal"} /\ last'.op = "Right"
           /\ input_byte_pos = Len(input_text))
          => UNCHANGED input
       /\ (mode \in {"Insert", "Normal"} /\ last'.op \in {"Left", "Right"})
          => input_text' = input_text]_vars

\* C8 witness: Left was handled in Normal mode with the cursor at byte 0 of
\* a text that is not empty.
C8_Witness ==
    /\ mode = "Normal" /\ last.op = "Left" /\ last.pre
    /\ input_byte_pos = 0 /\ input_char_pos = 0
    /\ Len(input_text) >= 2

(***************************************************************************)
(* Properties of the message highlight and of the history.                 *)
(***************************************************************************)
\* the id the highlight designates: index k is the k-th newest message
Highlighted(ids, sel) == VecGet(ids, Len(ids) - Unwrap(sel) - 1)

\* C9 (as claimed): when a message of the current channel is highlighted
\* and a new message is applied to that channel, the highlight designates
\* the same message afterwards.
C9_HighlightTracks ==
    [][(/\ IsSome(CurrentChannel)
        /\ IsSome(messages_state)
        /\ IsSome(Highlighted(Unwrap(CurrentChannel).message_ids, messages_state))
        /\ last'.op = "message"
        /\ last'.room = Unwrap(current_channel))
       => /\ IsSome(messages_state')
          /\ Highlighted(channels'[last'.room].message_ids, messages_state')
               = Highlighted(Unwrap(CurrentChannel).message_ids, messages_state)]_vars

\* C10: a history answer without a token sets at_top; at_top never becomes
\* false again; no history request is made for a channel whose at_top is
\* set; Up on the oldest message of such a channel leaves the highlight.
C10_AtTopIsFinal ==
    [][\A r \in DOMAIN channels :
        /\ (last'.op = "Up" /\ last'.room = r /\ last'.fetch = "end")
           => channels'[r].at_top
        /\ channels[r].at_top => channels'[r].at_top
        /\ channels[r].at_top
           => ~(last'.op = "Up" /\ last'.room = r /\ last'.fetch # "")
        /\ (/\ mode = "ScrollMessages" /\ last'.op = "Up"
            /\ current_channel = Some(r)
            /\ channels[r].at_top
            /\ channels[r].messages # EmptyMap
            /\ messages_state = Some(Cardinality(DOMAIN channels[r].messages) - 1))
           => messages_state' = messages_state]_vars

\* C10 witness: Up was handled on the oldest message of a channel whose
\* at_top is set, with no history request.
C10_Witness ==
    /\ mode = "ScrollMessages"
    /\ last.op = "Up" /\ last.pre /\ last.fetch = ""
    /\ IsSome(CurrentChannel)
    /\ Unwrap(CurrentChannel).at_top
    /\ Len(Unwrap(CurrentChannel).message_ids) >= 1
    /\ messages_state = Some(Len(Unwrap(CurrentChannel).message_ids) - 1)

\* C11: a failed history request changes nothing of the channels (at_top,
\* the stored token, the order, the messages) and nothing of the highlight,
\* and the task goes on reading keys; Up on the oldest message of a channel
\* whose at_top is not set makes a history request, also right after a
\* failed one.
C11_FailedFetchDropped ==
    [][/\ (last'.op = "Up" /\ last'.fetch = "err")
          => /\ UNCHANGED <<channels, messages_state, selection, mode>>
             /\ ui_pc' = "reading"
             /\ ~channels'[last'.room].at_top
       /\ \A r \in DOMAIN channels :
            (/\ mode = "ScrollMessages" /\ last'.op = "Up"
             /\ current_channel = Some(r)
             /\ ~channels[r].at_top
             /\ channels[r].messages # EmptyMap
             /\ IsSome(messages_state)
             /\ Unwrap(messages_state) >= Cardinality(DOMAIN channels[r].messages) - 1)
            => /\ last'.fetch # ""
               /\ last'.room = r]_vars

\* C11 witness: a history request just failed on the oldest of two messages
\* of a channel that holds the token of an earlier answer.
C11_Witness ==
    /\ mode = "ScrollMessages" /\ ui_pc = "reading"
    /\ last.op = "Up" /\ last.fetch = "err"
    /\ IsSome(CurrentChannel)
    /\ ~Unwrap(CurrentChannel).at_top
    /\ IsSome(Unwrap(CurrentChannel).messages_prev_batch)
    /\ Len(Unwrap(CurrentChannel).message_ids) = 2
    /\ messages_state = Some(1)

(***************************************************************************)
(* Properties of the keys and the modes.                                   *)
(***************************************************************************)
\* C12: Enter in Normal or Insert mode with the input text exactly /quit
\* clears RUNNING, in every state the keys before have led to; Enter with
\* any other text, and Enter in SelectChannel or ScrollMessages mode, leaves
\* RUNNING as it is.
C12_QuitOnlyExact ==
    [][/\ (/\ Reading /\ last'.op = "Enter"
           /\ mode \in {"Normal", "Insert"}
           /\ input_text = QuitText)
          => ~RUNNING'
       /\ (/\ last'.op = "Enter"
           /\ ~(mode \in {"Normal", "Insert"} /\ input_text = QuitText))
          => RUNNING' = RUNNING]_vars

\* C12 witness: RUNNING was cleared by Enter in Normal mode, after a channel
\* had been chosen.
C12_Witness ==
    /\ ~RUNNING
    /\ last.op = "Enter"
    /\ mode = "Normal"
    /\ input_text = QuitText
    /\ IsSome(current_channel)

\* the mode the claim gives after key k is handled in mode m, cur telling
\* whether a current channel is set
ModeAfter(m, k, cur) ==
    CASE m = "Normal" /\ k = "i" -> "Insert"
      [] m = "Normal" /\ k = "C" -> "SelectChannel"
      [] m = "Normal" /\ k = "S" /\ cur -> "ScrollMessages"
      [] m = "Insert" /\ k = "Esc" -> "Normal"
      [] m = "SelectChannel" /\ k \in {"Enter", "Esc"} -> "Normal"
      [] m = "ScrollMessages" /\ k = "Esc" -> "Normal"
      [] OTHER -> m

\* C13: the mode is one of the four modes and is Normal at the start; every
\* step, whatever key or event it handles, takes the mode to the mode of the
\* transition table, which leaves it unchanged outside the six transitions.
C13_ModeMachine ==
    /\ [](mode \in {"Normal", "Insert", "SelectChannel", "ScrollMessages"})
    /\ [](last.op = "start" => mode = "Normal")
    /\ [][mode' = ModeAfter(mode, last'.op, IsSome(current_channel))]_vars

\* C13 witness: S was handled in Normal mode with no current channel, after
\* a text had been typed in Insert mode, and the mode is still Normal.
C13_Witness ==
    /\ last.op = "S" /\ ~last.pre
    /\ mode = "Normal"
    /\ current_channel = None
    /\ Len(input_text) >= 2

\* C14: in SelectChannel mode with N >= 1 channels, Up takes the highlight
\* from c > 0 to c - 1, from 0 to N - 1 and from none to N - 1; Down takes it
\* from c < N - 1 to c + 1, from N - 1 to 0 and from none to N - 1.
C14_HighlightMoves ==
    [][LET N == Len(channel_ids)
           c == Unwrap(channels_state)
       IN (/\ Reading /\ mode = "SelectChannel"
           /\ N >= 1
           /\ IsSome(channels_state) => c < N)
          => /\ last'.op = "Up"
                => channels_state' = IF ~IsSome(channels_state) THEN Some(N - 1)
                                     ELSE IF c > 0 THEN Some(c - 1)
                                     ELSE Some(N - 1)
             /\ last'.op = "Down"
                => channels_state' = IF ~IsSome(channels_state) THEN Some(N - 1)
                                     ELSE IF c < N - 1 THEN Some(c + 1)
                                     ELSE Some(0)]_vars

\* C14 witness: Down was handled with two channels and no highlight, and the
\* last channel is highlighted.
C14_Witness ==
    /\ mode = "SelectChannel"
    /\ last.op = "Down" /\ ~last.pre
    /\ Len(channel_ids) = 2
    /\ channels_state = Some(1)

\* C15 (as claimed): the channel highlight is absent or an index below the
\* number of entries of channel_ids, and Up and Down in SelectChannel mode
\* compute no index outside the list (the task does not die on one), for
\* every number of channels, zero included.
C15_ChannelHighlightValid ==
    /\ IsSome(channels_state) => Unwrap(channels_state) < Len(channel_ids)
    /\ ~(/\ mode = "SelectChannel"
         /\ last.op \in {"Up", "Down"}
         /\ ui_pc = "panicked")

(***************************************************************************)
(* Properties of the requests and of the highlights.                       *)
(***************************************************************************)
\* C16 (as claimed): the message highlight is absent or an index below the
\* number of messages of the current channel, and S, Up, Down and Ctrl-d
\* compute no message index outside the list (the task does not die on
\* one), also when the current channel holds no message.
C16_MessageHighlightValid ==
    /\ IsSome(messages_state)
       => /\ IsSome(CurrentChannel)
          /\ Unwrap(messages_state) < Len(Unwrap(CurrentChannel).message_ids)
    /\ ~(/\ mode = "ScrollMessages"
         /\ last.op \in {"Up", "Down", "Ctrl-d"}
         /\ last.fetch = ""
         /\ ui_pc = "panicked")

\* C17: Enter in Normal or Insert mode with a text that is not empty and not
\* /quit makes one request to send, of the whole text to the current
\* channel, exactly when a current channel is set; when the step completes
\* the text is empty, both positions are 0 and the mode is as before.  Enter
\* with an empty text makes no request and changes nothing.
C17_EnterSends ==
    [][(/\ Reading /\ mode \in {"Normal", "Insert"} /\ last'.op = "Enter")
       => /\ (input_text # <<>> /\ input_text # QuitText)
             => /\ last'.fetch \in {"sent", "failed"} <=> IsSome(current_channel)
                /\ last'.fetch \in {"sent", "failed"}
                   => /\ last'.room = Unwrap(current_channel)
                      /\ last'.id = input_text
                /\ ui_pc' = "reading"
                   => /\ input_text' = <<>>
                      /\ input_byte_pos' = 0
                      /\ input_char_pos' = 0
                      /\ mode' = mode
          /\ input_text = <<>>
             => /\ last'.fetch = ""
                /\ UNCHANGED <<timeline, selection, input, mode, RUNNING, tasks>>]_vars

\* C17 witness: Enter in Insert mode sent a text of several characters, one
\* of them of several bytes, to the current channel, and the input is
\* empty.
C17_Witness ==
    /\ mode = "Insert" /\ ui_pc = "reading"
    /\ last.op = "Enter" /\ last.fetch = "sent"
    /\ current_channel = Some(last.room)
    /\ Len(last.id) >= 3
    /\ \E k \in 1 .. Len(last.id) : last.id[k][2] > 0
    /\ input_text = <<>> /\ input_byte_pos = 0 /\ input_char_pos = 0

\* C18 (as claimed): when the request to send (Enter) or to redact (Ctrl-d)
\* fails, the channels, the selection, the input and the mode are as before
\* the key, and the task goes on reading keys.
C18_FailureAbandoned ==
    [][(last'.op \in {"Enter", "Ctrl-d"} /\ last'.fetch = "failed")
       => /\ UNCHANGED <<timeline, selection, input, mode>>
          /\ ui_pc' = "reading"]_vars

(***************************************************************************)
(* Properties of the tasks.                                                *)
(***************************************************************************)
\* C19: at most one task holds the lock of the state; a handler is under way
\* only in the task that holds it; and while main_ui holds it to draw, no
\* handler is under way: every id of every order sequence has its message
\* and no page is applied in part.
C19_DrawSeesWholeSteps ==
    /\ Cardinality(holder) <= 1
    /\ IsSome(work) => holder = {Unwrap(work).who}
    /\ render_pc = "draw"
       => /\ holder = {"draw"}
          /\ work = None
          /\ \A r \in DOMAIN channels :
                \A k \in 1 .. Len(channels[r].message_ids) :
                   channels[r].message_ids[k] \in DOMAIN channels[r].messages

\* C19 witness: main_ui holds the lock to draw after a page of two events
\* has been applied, the second of them a new message.
C19_Witness ==
    /\ render_pc = "draw"
    /\ last.op = "page" /\ ~last.pre
    /\ Len(arrival) = 2
    /\ IsSome(CurrentChannel)
    /\ Len(Unwrap(CurrentChannel).message_ids) = 2
    /\ IsSome(Unwrap(CurrentChannel).messages_prev_batch)

\* C20: once RUNNING is cleared it stays cleared, no key is handled any
\* more, the guard ui_events held is dropped, and main_ui comes to load
\* RUNNING and leaves its loop, also while live events keep arriving.
C20_ShutdownReachesRender ==
    /\ [][~RUNNING => ~RUNNING']_vars
    /\ [][~RUNNING => /\ UNCHANGED <<input, mode, selection>>
                      /\ last' = last \/ last'.op = "message"]_vars
    /\ [](ui_pc = "done" => "ui" \notin holder)
    /\ ~RUNNING ~> (ui_pc = "done" /\ "ui" \notin holder)
    /\ ~RUNNING ~> render_pc = "exited"

\* C20 witness: main_ui has left its loop after /quit in Normal mode, and a
\* live event is being handled.
C20_Witness ==
    /\ ~RUNNING
    /\ render_pc = "exited"
    /\ ui_pc = "done"
    /\ mode = "Normal"
    /\ holder = {"sync"}
    /\ Len(arrival) >= 1

(***************************************************************************)
(* Properties of the drawn frame.                                          *)
(***************************************************************************)
\* C21: with w = width - 2 >= 1 and the cursor drawn in Insert or Normal
\* mode for character position p, the column and row inside the border are
\* column w of row (p - 1) / w when p is a positive multiple of w, and
\* column p mod w of row p / w otherwise; so row * w + column = p,
\* 0 <= column <= w, and column = 0 only for p = 0.
C21_CursorCell ==
    (IsSome(frame) /\ IsSome(Unwrap(frame).cursor))
    => LET area == Unwrap(frame).area
           w == area.width - 2
           p == input_char_pos
           column == Unwrap(Unwrap(frame).cursor)[1] - area.x - 1
           row == Unwrap(Unwrap(frame).cursor)[2] - area.y - 1
       IN /\ w >= 1
          /\ IF p > 0 /\ p % w = 0
             THEN column = w /\ row = (p - 1) \div w
             ELSE column = p % w /\ row = p \div w
          /\ row * w + column = p
          /\ 0 <= column /\ column <= w
          /\ column = 0 => p = 0
          /\ (w = 10 /\ p = 10) => (column = 10 /\ row = 0)
          /\ (w = 10 /\ p = 11) => (column = 1 /\ row = 1)

\* C21 witness: the cursor was drawn in Insert mode for character position
\* 20 in a widget of 10 columns, at the last column of the second row.
C21_Witness ==
    /\ IsSome(frame)
    /\ mode = "Insert"
    /\ input_char_pos = 20
    /\ Unwrap(frame).area = [x |-> 20, y |-> 7, width |-> 12]
    /\ Unwrap(frame).cursor = Some(<<31, 9>>)

\* C22: in SelectChannel mode Enter makes the id at the highlighted index of
\* channel_ids the current channel, and no channel when nothing is
\* highlighted, and keeps the highlight; Esc clears the current channel and
\* the highlight; both leave the input and the channels as they are.  The
\* current channel is always absent or an id that is in channel_ids and in
\* the channel map.
C22_ChooseChannel ==
    /\ [](IsSome(current_channel)
          => /\ \E k \in 1 .. Len(channel_ids) : channel_ids[k] = Unwrap(current_channel)
             /\ Unwrap(current_channel) \in DOMAIN channels)
    /\ [][(Reading /\ mode = "SelectChannel")
          => /\ last'.op = "Enter"
                => /\ ~IsSome(channels_state) => current_channel' = None
                   /\ (IsSome(channels_state) /\ Unwrap(channels_state) < Len(channel_ids))
                      => current_channel' = Some(channel_ids[Unwrap(channels_state) + 1])
                   /\ channels_state' = channels_state
                   /\ UNCHANGED <<input, channels, channel_ids>>
             /\ last'.op = "Esc"
                => /\ current_channel' = None
                   /\ channels_state' = None
                   /\ UNCHANGED <<input, channels, channel_ids>>]_vars

\* C22 witness: Enter has made the second of two channels the current
\* channel and the highlight is still on it.
C22_Witness ==
    /\ mode = "Normal"
    /\ last.op = "Enter" /\ last.pre
    /\ Len(channel_ids) = 2
    /\ channels_state = Some(1)
    /\ current_channel = Some(channel_ids[2])

\* C23: a request for history is made with the token the channel holds, and
\* with the sync token when it holds none; an answer makes its token the
\* token of the channel, none when it carries none, and sets at_top exactly
\* when it carries none; the token of a channel changes in no other step.
\* So each request carries the token of the answer before it.
C23_TokenChain ==
    [][/\ (~IsSome(work) /\ IsSome(work') /\ Unwrap(work').who = "ui")
          => LET stored == channels[Unwrap(work').room].messages_prev_batch
             IN Unwrap(work').from = IF IsSome(stored) THEN stored ELSE sync_token
       /\ (IsSome(work) /\ IsSome(work')
           /\ ~Unwrap(work).answered /\ Unwrap(work').answered
           /\ last'.fetch # "err")
          => LET r == Unwrap(work').room
             IN /\ channels'[r].messages_prev_batch = Unwrap(work').end
                /\ channels'[r].at_top <=> Unwrap(work').end = None
       /\ \A r \in DOMAIN channels :
            channels'[r].messages_prev_batch # channels[r].messages_prev_batch
            => /\ IsSome(work) /\ ~Unwrap(work).answered
               /\ Unwrap(work).who = "ui" /\ Unwrap(work).room = r
               /\ last'.fetch \in {"end", "more"}]_vars

\* C23 witness: the second answer for a channel, to a request that carried
\* the token of the first, has set the token it returned.
C23_Witness ==
    /\ IsSome(work)
    /\ Unwrap(work).who = "ui" /\ Unwrap(work).answered
    /\ Unwrap(work).from = Some(1)
    /\ Unwrap(work).end = Some(2)
    /\ channels[Unwrap(work).room].messages_prev_batch = Some(2)
    /\ ~channels[Unwrap(work).room].at_top

\* C24: in every state the scan Backspace and Left would make from the
\* cursor stops within 4 values of i at an offset of at least 0, and the
\* scan Right would make stops within 4 values of i at an offset of at most
\* the byte length of the text.
C24_ScansStop ==
    /\ input_byte_pos > 0
       => LET i == ScanBack(input_text, input_byte_pos, 1)
          IN i >= 1 /\ i <= 4 /\ input_byte_pos - i >= 0
    /\ input_byte_pos < Len(input_text)
       => LET i == ScanForward(input_text, input_byte_pos, 1)
          IN i >= 1 /\ i <= 4 /\ input_byte_pos + i <= Len(input_text)

\* C24 witness: Left has scanned back over a character of four bytes, which
\* Right would scan forward over, with a character before it.
C24_Witness ==
    /\ last.op = "Left" /\ ~last.pre
    /\ input_byte_pos > 0
    /\ input_byte_pos + 4 = Len(input_text)
    /\ input_text[input_byte_pos + 1] = <<"smile", 0>>
    /\ ScanForward(input_text, input_byte_pos, 1) = 4
    /\ ScanBack(input_text, input_byte_pos, 1) = 2

(***************************************************************************)
(* Properties of the channel map.                                          *)
(***************************************************************************)
\* C25 (as claimed): whenever a live new-message event has been handled,
\* whatever the membership of its room, the room has an entry in the
\* channel map and the handler has not failed; and no step removes an entry
\* of the channel map.
C25_ChannelExists ==
    /\ []((last.op = "message")
            => (last.room \in DOMAIN channels /\ sync_pc # "panicked"))
    /\ [][DOMAIN channels \subseteq DOMAIN channels']_vars

\* C26: in every channel no id is twice in message_ids and the ids of
\* message_ids are the keys of messages, whatever live events and pages of
\* history have been applied and in whatever order; the one exception is
\* the point between the two inserts of a new message, inside
\* handle_new_message, where the id is in message_ids only.
C26_IdsAreKeys ==
    (IsSome(work) => Unwrap(work).pre = None)
    => \A r \in DOMAIN channels :
          LET ch == channels[r] IN
          /\ \A j, k \in 1 .. Len(ch.message_ids) :
                ch.message_ids[j] = ch.message_ids[k] => j = k
          /\ {ch.message_ids[k] : k \in 1 .. Len(ch.message_ids)}
                = DOMAIN ch.messages

\* C26 witness: the first item of the first page of a channel is a message
\* a live event has brought before; the page has another item to apply.
C26_Witness ==
    /\ last.op = "page" /\ last.pre
    /\ IsSome(work)
    /\ Unwrap(work).who = "ui"
    /\ Unwrap(work).from = sync_token
    /\ Len(Unwrap(work).chunk) = MaxLoaded - 1
    /\ server_events[last.id].relates_to = 0
    /\ last.id \in DOMAIN channels[last.room].messages
    /\ Len(channels[last.room].message_ids) = 1

\* C27: the message highlight is present exactly when the mode is
\* ScrollMessages; in ScrollMessages mode the current channel is set and is
\* in the channel map; and no step taken in ScrollMessages mode, a key or a
\* live event, changes the channel highlight or the current channel.
C27_HighlightIffScroll ==
    /\ [](IsSome(messages_state) <=> mode = "ScrollMessages")
    /\ [](mode = "ScrollMessages"
            => (IsSome(current_channel)
                /\ Unwrap(current_channel) \in DOMAIN channels))
    /\ [][mode = "ScrollMessages"
            => UNCHANGED <<channels_state, current_channel>>]_vars

\* C27 witness: Esc has left ScrollMessages mode, where the highlight had
\* moved up to the second of two messages.
C27_Witness ==
    /\ last.op = "Esc" /\ last.pre
    /\ mode = "Normal"
    /\ messages_state = None
    /\ IsSome(CurrentChannel)
    /\ Len(Unwrap(CurrentChannel).message_ids) = 2
    /\ IsSome(Unwrap(CurrentChannel).messages_prev_batch)

\* C28 (as claimed): a live new-message or edit event of channel X leaves
\* every other channel as it was (order sequence, message map, pending
\* edits, at_top, continuation token), and leaves the message highlight as
\* it was when X is not the current channel.
C28_OtherChannelsUntouched ==
    [][last'.op = "message"
         => /\ \A r \in DOMAIN channels \ {last'.room} : channels'[r] = channels[r]
            /\ current_channel # Some(last'.room)
               => messages_state' = messages_state]_vars
====
